---- MODULE Spec2Model ----
(***************************************************************************)
(* The inet extension: the text-to-address scanner TryParseIPAddress and   *)
(* the batch cast VarcharToINETCast of extension/inet/inet-extension.cpp.  *)
(*                                                                         *)
(* A text is a sequence of one-character strings.  Indices into a text are *)
(* zero-based, as in the source: data[c] is written At(data, c).           *)
(***************************************************************************)
EXTENDS Integers, Sequences, FiniteSets, TLC

(* ------------------------------ bounds --------------------------------- *)

\* longest text of the exhaustive input family
MaxLen == 8

\* largest row count of one cast call
MaxCount == 3

(* --------------------------- program constants ------------------------- *)

\* the octet count at which the scanner leaves for parse_mask
OctetCount == 4

\* the mask of an input without a suffix
DefaultMask == 32

\* the largest value of uint8_t, the target of TryCast::Operation
UInt8Max == 255

\* the largest value of int32_t, the type of the accumulator
Int32Max == 2147483647

Int32Min == -Int32Max - 1

(* ------------------------------- texts --------------------------------- *)

DigitChars == <<"0", "1", "2", "3", "4", "5", "6", "7", "8", "9">>

Digits == {DigitChars[k] : k \in 1..10}

\* ch - '0'
DigitVal(ch) == (CHOOSE k \in 1..10 : DigitChars[k] = ch) - 1

\* data[k], zero-based
At(data, k) == data[k + 1]

\* string_t(data + from, len)
Slice(data, from, len) == [k \in 1..len |-> data[from + k]]

\* data[c] >= '0' && data[c] <= '9'
IsDigit(ch) == ch \in Digits

\* storage whose content is indeterminate until it is assigned holds Uninit,
\* and Stored(v) once v was assigned to it
Uninit == <<>>

Stored(v) == <<v>>

(* --------------------- TryCast<string_t, uint8_t> ---------------------- *)

\* The host's digit loop over a text of digits: result = result * 10 + digit,
\* refused as soon as the result leaves the range of uint8_t.  ok is the
\* returned bool, value the number written through the reference.
CastFailed == [ok |-> FALSE, value |-> 0]

RECURSIVE CastDigits(_, _, _)
CastDigits(str, pos, acc) ==
  IF pos > Len(str) THEN [ok |-> TRUE, value |-> acc]
  ELSE IF ~IsDigit(str[pos]) THEN CastFailed
  ELSE LET digit == DigitVal(str[pos])
       IN IF acc > (UInt8Max - digit) \div 10 THEN CastFailed
          ELSE CastDigits(str, pos + 1, acc * 10 + digit)

TryCastUInt8(str) == IF Len(str) = 0 THEN CastFailed ELSE CastDigits(str, 1, 0)

(* --------------------------- IPAddressError ---------------------------- *)

\* HandleCastError::AssignError(e, error_message): the message is stored
\* through the pointer
AssignError(e, current) == e

\* "Failed to convert string \"" + input + "\" to inet: " + error
ErrorText(input, error) ==
  <<"Failed to convert string \"">> \o input \o <<"\" to inet: ">> \o <<error>>

\* the scanner's state after `return IPAddressError(input, error_message, error)`
IPAddressError(s, error) ==
  [s EXCEPT !.error_message = AssignError(ErrorText(s.input, error), @),
            !.ret = FALSE,
            !.pc = "return"]

(* ----------------------- the address accumulator ----------------------- *)

Pow2(n) == 2 ^ n

\* number << shift in int: number is promoted to int, the bits that leave the
\* 32-bit word are lost and bit 31 is the sign (the value the two's
\* complement targets of the host give when number << 24 passes INT_MAX).
ShiftLeftInt32(number, shift) ==
  IF shift < 24 THEN number * Pow2(shift)
  ELSE IF shift > 31 THEN 0
  ELSE LET keep == Pow2(31 - shift)
       IN (number % keep) * Pow2(shift)
          + (IF (number \div keep) % 2 = 1 THEN Int32Min ELSE 0)

\* x + y in int32_t, two's complement
AddInt32(x, y) ==
  IF x >= 0 /\ y >= 0 /\ x > Int32Max - y THEN (x + Int32Min) + (y + Int32Min)
  ELSE IF x < 0 /\ y < 0 /\ x < Int32Min - y THEN (x - Int32Min) + (y - Int32Min)
  ELSE x + y

\* the shift without the factor 8: number << number_count
AccumulateShiftByCount(addr, number, count) ==
  AddInt32(addr, ShiftLeftInt32(number, count))

\* address += number << (8 * number_count)
Accumulate(addr, number, count) == AddInt32(addr, ShiftLeftInt32(number, 8 * count))

(* ------------------------- TryParseIPAddress --------------------------- *)

\* the scanner's locals on entry
ParserInit(text, message) ==
  [input |-> text, c |-> 0, number_count |-> 0, address |-> 0, start |-> 0,
   pc |-> "parse_number",
   result |-> [address |-> Uninit, mask |-> Uninit],
   error_message |-> message, ret |-> FALSE, rd |-> {}]

\* parse_number: idx_t start = c
ParseNumberStep(s) ==
  [s EXCEPT !.start = s.c, !.pc = "scan", !.rd = {}]

\* one evaluation of the while condition, and the body when it holds
ScanStep(s) ==
  IF s.c < Len(s.input)
  THEN IF IsDigit(At(s.input, s.c))
       THEN [s EXCEPT !.c = s.c + 1, !.rd = {s.c}]
       ELSE [s EXCEPT !.pc = "convert", !.rd = {s.c}]
  ELSE [s EXCEPT !.pc = "convert", !.rd = {}]

\* the conversion without the test start == c
ConvertStepNoEmptyTest(s) ==
  LET number == TryCastUInt8(Slice(s.input, s.start, s.c - s.start))
      reads  == s.start .. (s.c - 1)
  IN IF ~number.ok
     THEN [IPAddressError(s, "Expected a number between 0 and 255")
             EXCEPT !.rd = reads]
     ELSE LET addr == Accumulate(s.address, number.value, s.number_count)
              cnt  == s.number_count + 1
          IN [s EXCEPT !.address = addr,
                       !.number_count = cnt,
                       !.result = [@ EXCEPT !.address = Stored(addr)],
                       !.pc = IF cnt = OctetCount THEN "parse_mask"
                                                 ELSE "parse_dot",
                       !.rd = reads]

\* the conversion that tests number_count == 4 before the increment
ConvertStepTestBeforeIncrement(s) ==
  IF s.start = s.c
  THEN [IPAddressError(s, "Expected a number") EXCEPT !.rd = {}]
  ELSE LET number == TryCastUInt8(Slice(s.input, s.start, s.c - s.start))
           reads  == s.start .. (s.c - 1)
       IN IF ~number.ok
          THEN [IPAddressError(s, "Expected a number between 0 and 255")
                  EXCEPT !.rd = reads]
          ELSE LET addr == Accumulate(s.address, number.value, s.number_count)
               IN [s EXCEPT !.address = addr,
                            !.number_count = s.number_count + 1,
                            !.result = [@ EXCEPT !.address = Stored(addr)],
                            !.pc = IF s.number_count = OctetCount
                                   THEN "parse_mask" ELSE "parse_dot",
                            !.rd = reads]

\* from the empty-run test to the goto that follows the octet
ConvertStep(s) ==
  IF s.start = s.c
  THEN [IPAddressError(s, "Expected a number") EXCEPT !.rd = {}]
  ELSE LET number == TryCastUInt8(Slice(s.input, s.start, s.c - s.start))
           reads  == s.start .. (s.c - 1)
       IN IF ~number.ok
          THEN [IPAddressError(s, "Expected a number between 0 and 255")
                  EXCEPT !.rd = reads]
          ELSE LET addr == Accumulate(s.address, number.value, s.number_count)
                   cnt  == s.number_count + 1
               IN [s EXCEPT !.address = addr,
                            !.number_count = cnt,
                            !.result = [@ EXCEPT !.address = Stored(addr)],
                            !.pc = IF cnt = OctetCount THEN "parse_mask"
                                                      ELSE "parse_dot",
                            !.rd = reads]

\* parse_dot taking a slash for a dot
ParseDotStepAnySeparator(s) ==
  IF s.c = Len(s.input)
  THEN [IPAddressError(s, "Expected a dot") EXCEPT !.rd = {}]
  ELSE IF At(s.input, s.c) # "." /\ At(s.input, s.c) # "/"
  THEN [IPAddressError(s, "Expected a dot") EXCEPT !.rd = {s.c}]
  ELSE [s EXCEPT !.c = s.c + 1, !.pc = "parse_number", !.rd = {s.c}]

\* parse_dot
ParseDotStep(s) ==
  IF s.c = Len(s.input)
  THEN [IPAddressError(s, "Expected a dot") EXCEPT !.rd = {}]
  ELSE IF At(s.input, s.c) # "."
  THEN [IPAddressError(s, "Expected a dot") EXCEPT !.rd = {s.c}]
  ELSE [s EXCEPT !.c = s.c + 1, !.pc = "parse_number", !.rd = {s.c}]

\* parse_mask: the cast reads string_t(data + start, c - start), where start
\* and c still delimit the fourth octet
ParseMaskStep(s) ==
  IF s.c = Len(s.input)
  THEN [s EXCEPT !.result = [@ EXCEPT !.mask = Stored(DefaultMask)],
                 !.ret = TRUE, !.pc = "return", !.rd = {}]
  ELSE IF At(s.input, s.c) # "/"
  THEN [IPAddressError(s, "Expected a slash") EXCEPT !.rd = {s.c}]
  ELSE LET mask  == TryCastUInt8(Slice(s.input, s.start, s.c - s.start))
           reads == {s.c} \cup (s.start .. (s.c - 1))
       IN IF ~mask.ok
          THEN [IPAddressError(s, "Expected a number between 0 and 255")
                  EXCEPT !.rd = reads]
          ELSE [s EXCEPT !.result = [@ EXCEPT !.mask = Stored(mask.value)],
                         !.ret = TRUE, !.pc = "return", !.rd = reads]

\* one step of the scanner from the label it is at
ParserStep(s) ==
  CASE s.pc = "parse_number" -> ParseNumberStep(s)
    [] s.pc = "scan"         -> ScanStep(s)
    [] s.pc = "convert"      -> ConvertStep(s)
    [] s.pc = "parse_dot"    -> ParseDotStep(s)
    [] s.pc = "parse_mask"   -> ParseMaskStep(s)

\* the scanner run to its return
RECURSIVE ParserRun(_)
ParserRun(s) == IF s.pc = "return" THEN s ELSE ParserRun(ParserStep(s))

\* TryParseIPAddress(input, result, error_message)
TryParseIPAddress(text, message) == ParserRun(ParserInit(text, message))

(* --------------------------- VarcharToINETCast ------------------------- *)

\* the cells of the mask buffer the model keeps: the column entries come
\* first, one unsigned 16-bit cell per row, and the cells after them follow
\* in the same buffer
MaskCells == 0 .. (2 * MaxCount - 1)

Rows == 0 .. (MaxCount - 1)

\* mask_data[k] = value through an int32_t pointer into a buffer of 16-bit
\* cells: a 4-byte store at byte offset 4 * k, low half first (the host's
\* vectors are laid out for little-endian targets)
StoreInt32(cells, k, value) ==
  [cell \in DOMAIN cells |->
     IF cell = 2 * k THEN Stored(value % 65536)
     ELSE IF cell = 2 * k + 1 THEN Stored((value \div 65536) % 65536)
     ELSE cells[cell]]

\* FlatVector::SetNull(result, k, true)
SetNull(validity, k) == [validity EXCEPT ![k] = FALSE]

\* the cast's state after ToUnifiedFormat and the GetData calls
CastInit(source, n) ==
  [vdata |-> source, count |-> n, i |-> 0,
   address_data |-> [k \in Rows |-> Uninit],
   mask_data |-> [k \in MaskCells |-> Uninit],
   result_validity |-> [k \in Rows |-> TRUE],
   error_message |-> <<>>, cast_ret |-> FALSE, cast_pc |-> "loop",
   parser_calls |-> 0, inet |-> [address |-> Uninit, mask |-> Uninit]]

\* the loop body without the continue of a null row
CastIterationNoContinue(b) ==
  IF ~(b.i < b.count)
  THEN [b EXCEPT !.cast_ret = TRUE, !.cast_pc = "return"]
  ELSE LET idx == b.vdata.sel[b.i]
           nulls == IF b.vdata.validity[idx] THEN b.result_validity
                    ELSE SetNull(b.result_validity, b.i)
           p == TryParseIPAddress(b.vdata.data[idx], b.error_message)
       IN IF ~p.ret
          THEN [b EXCEPT !.result_validity = nulls,
                         !.error_message = p.error_message,
                         !.inet = p.result,
                         !.parser_calls = @ + 1,
                         !.cast_ret = FALSE, !.cast_pc = "return"]
          ELSE [b EXCEPT !.result_validity = nulls,
                         !.error_message = p.error_message,
                         !.inet = p.result,
                         !.parser_calls = @ + 1,
                         !.address_data = [@ EXCEPT ![b.i] = p.result.address],
                         !.mask_data = StoreInt32(@, b.i, p.result.mask[1]),
                         !.i = b.i + 1]

\* one evaluation of the for condition, and the loop body when it holds
CastIteration(b) ==
  IF ~(b.i < b.count)
  THEN [b EXCEPT !.cast_ret = TRUE, !.cast_pc = "return"]
  ELSE LET idx == b.vdata.sel[b.i]
       IN IF ~b.vdata.validity[idx]
          THEN [b EXCEPT !.result_validity = SetNull(@, b.i), !.i = b.i + 1]
          ELSE LET p == TryParseIPAddress(b.vdata.data[idx], b.error_message)
               IN IF ~p.ret
                  THEN [b EXCEPT !.error_message = p.error_message,
                                 !.inet = p.result,
                                 !.parser_calls = @ + 1,
                                 !.cast_ret = FALSE, !.cast_pc = "return"]
                  ELSE [b EXCEPT !.error_message = p.error_message,
                                 !.inet = p.result,
                                 !.parser_calls = @ + 1,
                                 !.address_data = [@ EXCEPT ![b.i] = p.result.address],
                                 !.mask_data = StoreInt32(@, b.i, p.result.mask[1]),
                                 !.i = b.i + 1]

(* ------------------------------ inputs --------------------------------- *)

\* the characters of the exhaustive family: a digit, the two separators and
\* a character that is neither
Alphabet == {"5", ".", "/", "x"}

ArbitraryInputs == UNION {[1..n -> Alphabet] : n \in 0..MaxLen}

\* the decimal text of a natural number
RECURSIVE ToDigits(_)
ToDigits(n) ==
  IF n < 10 THEN <<DigitChars[n + 1]>>
  ELSE ToDigits(n \div 10) \o <<DigitChars[(n % 10) + 1]>>

Dot4(a, b, c4, d) ==
  ToDigits(a) \o <<".">> \o ToDigits(b) \o <<".">> \o ToDigits(c4) \o <<".">> \o ToDigits(d)

Dot4Mask(a, b, c4, d, m) == Dot4(a, b, c4, d) \o <<"/">> \o ToDigits(m)

OctetSamples == {0, 7, 128, 255}

MaskSamples == {0, 24, 32, 255}

PlainInputs == {Dot4(a, b, c4, d) : a \in OctetSamples, b \in OctetSamples,
                                    c4 \in OctetSamples, d \in OctetSamples}

MaskedInputs == {Dot4Mask(q[1], q[2], q[3], q[4], m) :
                   q \in OctetSamples \X OctetSamples \X OctetSamples \X OctetSamples,
                   m \in MaskSamples}

\* texts with a particular shape: an octet above 255, three octets only,
\* leading zeros, a suffix without digits, a suffix above 255
Text256 == ToDigits(256) \o <<".">> \o ToDigits(1) \o <<".">> \o ToDigits(1) \o <<".">> \o ToDigits(1)

Text123 == ToDigits(1) \o <<".">> \o ToDigits(2) \o <<".">> \o ToDigits(3)

TextBad == <<"b", "a", "d">>

ShapedInputs ==
  { Text256, Text123, TextBad,
    <<"0", "0">> \o Dot4(1, 2, 3, 4),
    Dot4(1, 2, 3, 4) \o <<"/">>,
    Dot4(1, 2, 3, 4) \o <<"/", "x">>,
    Dot4(1, 2, 3, 4) \o <<"/", "2", "4", "x">>,
    Dot4Mask(1, 2, 3, 4, 300),
    Dot4(1, 2, 3, 4) \o <<".", "5">>,
    Dot4(1, 2, 3, 200) \o <<"x">> }

Inputs == ArbitraryInputs \cup PlainInputs \cup MaskedInputs \cup ShapedInputs

\* the cells of a source column: a text, or a null cell whose text is
\* never looked at
RowTexts == {Dot4(1, 2, 3, 4), Dot4Mask(5, 6, 7, 200, 9), TextBad, Text123}

Cells == [valid : {TRUE}, text : RowTexts] \cup {[valid |-> FALSE, text |-> Uninit]}

\* selection vectors of a flat, a constant and a dictionary source
SelVectors(n) ==
  { [k \in 0..(n - 1) |-> k], [k \in 0..(n - 1) |-> 0],
    [k \in 0..(n - 1) |-> n - 1 - k] }

Sources(n) ==
  { [sel |-> sel,
     data |-> [k \in 0..(n - 1) |-> cells[k].text],
     validity |-> [k \in 0..(n - 1) |-> cells[k].valid]] :
    sel \in SelVectors(n), cells \in [0..(n - 1) -> Cells] }

(* ------------------------------- state --------------------------------- *)

VARIABLES
  input, c, number_count, address, start, pc, result, error_message, ret, rd,
  vdata, count, i, address_data, mask_data, result_validity,
  cast_ret, cast_pc, parser_calls, inet

parser_vars == <<input, c, number_count, address, start, pc, result, ret, rd>>

cast_vars == <<vdata, count, i, address_data, mask_data, result_validity,
               cast_ret, cast_pc, parser_calls, inet>>

vars == <<parser_vars, cast_vars, error_message>>

\* the scanner's variables as one record, and back
ParserState ==
  [input |-> input, c |-> c, number_count |-> number_count, address |-> address,
   start |-> start, pc |-> pc, result |-> result,
   error_message |-> error_message, ret |-> ret, rd |-> rd]

ParserBecomes(s) ==
  /\ input' = s.input /\ c' = s.c /\ number_count' = s.number_count
  /\ address' = s.address /\ start' = s.start /\ pc' = s.pc
  /\ result' = s.result /\ error_message' = s.error_message
  /\ ret' = s.ret /\ rd' = s.rd

CastState ==
  [vdata |-> vdata, count |-> count, i |-> i, address_data |-> address_data,
   mask_data |-> mask_data, result_validity |-> result_validity,
   error_message |-> error_message, cast_ret |-> cast_ret, cast_pc |-> cast_pc,
   parser_calls |-> parser_calls, inet |-> inet]

CastBecomes(b) ==
  /\ vdata' = b.vdata /\ count' = b.count /\ i' = b.i
  /\ address_data' = b.address_data /\ mask_data' = b.mask_data
  /\ result_validity' = b.result_validity /\ error_message' = b.error_message
  /\ cast_ret' = b.cast_ret /\ cast_pc' = b.cast_pc
  /\ parser_calls' = b.parser_calls /\ inet' = b.inet

\* no scanner is running / no cast is running
ParserIdle == [ParserInit(<<>>, <<>>) EXCEPT !.pc = "idle"]

CastIdle ==
  [CastInit([sel |-> <<>>, data |-> <<>>, validity |-> <<>>], 0)
     EXCEPT !.cast_pc = "idle"]

(* ------------------- one call of TryParseIPAddress --------------------- *)

Init ==
  /\ \E text \in Inputs :
       /\ input = text /\ c = 0 /\ number_count = 0 /\ address = 0 /\ start = 0
       /\ pc = "parse_number" /\ result = [address |-> Uninit, mask |-> Uninit]
       /\ error_message = <<>> /\ ret = FALSE /\ rd = {}
  /\ vdata = CastIdle.vdata /\ count = 0 /\ i = 0
  /\ address_data = CastIdle.address_data /\ mask_data = CastIdle.mask_data
  /\ result_validity = CastIdle.result_validity
  /\ cast_ret = FALSE /\ cast_pc = "idle" /\ parser_calls = 0
  /\ inet = CastIdle.inet

ParseNumber ==
  /\ pc = "parse_number"
  /\ ParserBecomes(ParseNumberStep(ParserState))
  /\ UNCHANGED cast_vars

Scan ==
  /\ pc = "scan"
  /\ ParserBecomes(ScanStep(ParserState))
  /\ UNCHANGED cast_vars

Convert ==
  /\ pc = "convert"
  /\ ParserBecomes(ConvertStep(ParserState))
  /\ UNCHANGED cast_vars

ParseDot ==
  /\ pc = "parse_dot"
  /\ ParserBecomes(ParseDotStep(ParserState))
  /\ UNCHANGED cast_vars

ParseMask ==
  /\ pc = "parse_mask"
  /\ ParserBecomes(ParseMaskStep(ParserState))
  /\ UNCHANGED cast_vars

Next == ParseNumber \/ Scan \/ Convert \/ ParseDot \/ ParseMask

Spec == Init /\ [][Next]_vars

(* ------------------- one call of VarcharToINETCast --------------------- *)

BatchInit ==
  /\ \E n \in 0..MaxCount : \E source \in Sources(n) :
       /\ vdata = source /\ count = n /\ i = 0
       /\ address_data = [k \in Rows |-> Uninit]
       /\ mask_data = [k \in MaskCells |-> Uninit]
       /\ result_validity = [k \in Rows |-> TRUE]
       /\ error_message = <<>> /\ cast_ret = FALSE /\ cast_pc = "loop"
       /\ parser_calls = 0 /\ inet = [address |-> Uninit, mask |-> Uninit]
  /\ input = <<>> /\ c = 0 /\ number_count = 0 /\ address = 0 /\ start = 0
  /\ pc = "idle" /\ result = [address |-> Uninit, mask |-> Uninit]
  /\ ret = FALSE /\ rd = {}

RowIsNull == i < count /\ ~vdata.validity[vdata.sel[i]]

\* the iteration of a null row
CastNullRow ==
  /\ cast_pc = "loop" /\ RowIsNull
  /\ CastBecomes(CastIteration(CastState))
  /\ UNCHANGED parser_vars

\* the iteration of a row with a text
CastTextRow ==
  /\ cast_pc = "loop" /\ i < count /\ ~RowIsNull
  /\ CastBecomes(CastIteration(CastState))
  /\ UNCHANGED parser_vars

\* the loop's exit and return true
CastReturn ==
  /\ cast_pc = "loop" /\ ~(i < count)
  /\ CastBecomes(CastIteration(CastState))
  /\ UNCHANGED parser_vars

BatchNext == CastNullRow \/ CastTextRow \/ CastReturn

BatchSpec == BatchInit /\ [][BatchNext]_vars

(* ------------------------- reference grammar --------------------------- *)
(* The grammar octet ('.' octet){3} ('/' mask)? read by splitting the text *)
(* at its separators, independently of the scanner.                        *)

\* the first position of ch in text, 0 when there is none
IndexOf(text, ch) ==
  IF \E k \in 1..Len(text) : text[k] = ch
  THEN CHOOSE k \in 1..Len(text) :
         text[k] = ch /\ \A j \in 1..(k - 1) : text[j] # ch
  ELSE 0

RECURSIVE Fields(_, _)
Fields(text, sep) ==
  LET k == IndexOf(text, sep)
  IN IF k = 0 THEN <<text>>
     ELSE <<SubSeq(text, 1, k - 1)>> \o Fields(SubSeq(text, k + 1, Len(text)), sep)

\* the decimal value of a text of digits, 256 standing for every larger value
RECURSIVE DecimalValue(_)
DecimalValue(text) ==
  IF Len(text) = 0 THEN 0
  ELSE LET v == DecimalValue(SubSeq(text, 1, Len(text) - 1)) * 10
                  + DigitVal(text[Len(text)])
       IN IF v > 255 THEN 256 ELSE v

IsOctetText(text) ==
  /\ Len(text) > 0
  /\ \A k \in 1..Len(text) : text[k] \in Digits
  /\ DecimalValue(text) <= 255

\* a.b.c.d
IsPlain(text) ==
  /\ IndexOf(text, "/") = 0
  /\ Len(Fields(text, ".")) = 4
  /\ \A k \in 1..4 : IsOctetText(Fields(text, ".")[k])

\* the text before the first slash, and the text after it
BeforeSlash(text) == SubSeq(text, 1, IndexOf(text, "/") - 1)

AfterSlash(text) == SubSeq(text, IndexOf(text, "/") + 1, Len(text))

\* a.b.c.d/m
IsMasked(text) ==
  /\ IndexOf(text, "/") > 0
  /\ IsPlain(BeforeSlash(text))
  /\ IsOctetText(AfterSlash(text))

\* the k-th octet of a text whose part before the slash, if any, is a.b.c.d
AddressPart(text) == IF IndexOf(text, "/") = 0 THEN text ELSE BeforeSlash(text)

Octet(text, k) == DecimalValue(Fields(AddressPart(text), ".")[k])

\* byte k (0..3) of the two's complement image of v, an int32_t widened to
\* 128 bits: sign extension leaves the four low bytes as they are
Byte(v, k) ==
  IF k = 3 THEN (v \div 16777216) % 256
  ELSE ((v % 16777216) \div (256 ^ k)) % 256

\* the message of a failure with the given reason
Message(text, reason) ==
  <<"Failed to convert string \"">> \o text \o <<"\" to inet: ", reason>>

Returned == pc = "return"

Succeeded == pc = "return" /\ ret

FailedWith(reason) ==
  pc = "return" /\ ~ret /\ error_message = Message(input, reason)

(* ------------------------------ claims --------------------------------- *)

\* C1: an input a.b.c.d without a suffix, every octet in 0..255, parses
\* successfully with mask 32 and an address whose bytes 0..3 are a, b, c, d.
C1_PlainRoundTrip ==
  (Returned /\ IsPlain(input)) =>
    /\ ret
    /\ result.mask = Stored(DefaultMask)
    /\ result.address # Uninit
    /\ \A k \in 0..3 : Byte(result.address[1], k) = Octet(input, k + 1)

C1_Witness ==
  Succeeded /\ input = Dot4(255, 128, 7, 255) /\ result.mask = Stored(32)

\* C2: an input a.b.c.d/m, every number in 0..255, parses successfully and
\* the mask is m, the number written after the slash.
C2_MaskIsSuffix ==
  (Returned /\ IsMasked(input)) =>
    /\ ret
    /\ result.mask = Stored(DecimalValue(AfterSlash(input)))

\* C3: on success the address is non-negative and equals
\* a + 256*b + 65536*c + 16777216*d.
C3_AddressZeroExtended ==
  Succeeded =>
    /\ result.address # Uninit
    /\ result.address[1] >= 0
    /\ result.address[1] % 16777216
         = Octet(input, 1) + 256 * Octet(input, 2) + 65536 * Octet(input, 3)
    /\ result.address[1] \div 16777216 = Octet(input, 4)

\* C4: the scanner succeeds only on texts that match the grammar in their
\* entirety; every other text is rejected.
C4_SuccessOnlyOnGrammar ==
  Succeeded => (IsPlain(input) \/ IsMasked(input))

(* C8 *)

\* the length of the maximal run of digits of text from zero-based position k
RECURSIVE RunLength(_, _)
RunLength(text, k) ==
  IF k < Len(text) /\ text[k + 1] \in Digits THEN 1 + RunLength(text, k + 1) ELSE 0

\* an octet position: the start of the input, or just after a consumed dot
OctetPosition(k) == k = 0 \/ (k <= Len(input) /\ input[k] = ".")

\* the conversion is entered at an octet position with the cursor at the end
\* of the maximal digit run that starts there
C8_AtOctetPosition ==
  pc = "convert" =>
    /\ number_count < OctetCount
    /\ OctetPosition(start)
    /\ c = start + RunLength(input, start)

\* what the conversion does with an empty run and with a run above 255
C8_ConvertOutcome ==
  pc = "convert" =>
    /\ (RunLength(input, start) = 0 =>
          (pc' = "return" /\ ~ret'
             /\ error_message' = Message(input, "Expected a number")))
    /\ (/\ RunLength(input, start) > 0
        /\ DecimalValue(SubSeq(input, start + 1, start + RunLength(input, start))) > 255
        => (pc' = "return" /\ ~ret'
              /\ error_message' = Message(input, "Expected a number between 0 and 255")))

\* the empty text, texts that do not start with a digit, and "256.1.1.1"
C8_Examples ==
  Returned =>
    /\ ((input = <<>> \/ (Len(input) > 0 /\ input[1] \notin Digits))
          => FailedWith("Expected a number"))
    /\ (input = Text256 => FailedWith("Expected a number between 0 and 255"))

\* C8: at every octet position an empty digit run fails with "Expected a
\* number" and a digit run above 255 fails with "Expected a number between 0
\* and 255", the message being: Failed to convert string "<input>" to inet:
\* <reason>.
C8_NumberErrors ==
  /\ []C8_AtOctetPosition
  /\ [][C8_ConvertOutcome]_vars
  /\ []C8_Examples

C8_Witness ==
  /\ FailedWith("Expected a number between 0 and 255")
  /\ start > 0 /\ input[start] = "."

(* C9 *)

C9_LabelCounts ==
  /\ pc = "parse_dot" => number_count \in 1..(OctetCount - 1)
  /\ pc = "parse_mask" => number_count = OctetCount

\* after a converted octet: to parse_dot exactly when fewer than four octets
\* were read, to parse_mask otherwise
C9_AfterOctet ==
  (pc = "convert" /\ pc' # "return") =>
    /\ number_count' = number_count + 1
    /\ (pc' = "parse_dot") = (number_count' < OctetCount)
    /\ (pc' = "parse_mask") = (number_count' = OctetCount)

C9_DotStep ==
  pc = "parse_dot" =>
    IF c < Len(input) /\ input[c + 1] = "."
    THEN pc' = "parse_number" /\ c' = c + 1 /\ error_message' = <<>>
    ELSE pc' = "return" /\ ~ret' /\ error_message' = Message(input, "Expected a dot")

C9_MaskStep ==
  pc = "parse_mask" =>
    /\ error_message' # Message(input, "Expected a dot")
    /\ (pc' = "return" /\ ~ret' /\ error_message' = Message(input, "Expected a slash"))
         = (c < Len(input) /\ input[c + 1] # "/")

C9_Examples == (Returned /\ input = Text123) => FailedWith("Expected a dot")

\* C9: after an octet a dot is required exactly when fewer than four octets
\* were read, and its absence fails with "Expected a dot"; after four octets
\* no dot is required, and the scan fails with "Expected a slash" exactly
\* when a further character is present and is not a slash.
C9_SeparatorErrors ==
  /\ []C9_LabelCounts
  /\ [][C9_AfterOctet /\ C9_DotStep /\ C9_MaskStep]_vars
  /\ []C9_Examples

C9_Witness ==
  /\ FailedWith("Expected a slash")
  /\ number_count = OctetCount /\ c < Len(input) /\ input[c + 1] = "."

(* C10 *)

C10_Bounds ==
  /\ c >= 0 /\ c <= Len(input)
  /\ start <= c
  /\ number_count <= OctetCount
  /\ (pc = "convert" => 8 * number_count <= 24)
  /\ \A k \in rd : k >= 0 /\ k < Len(input)
  /\ (Succeeded => number_count = OctetCount)

C10_CursorMonotone == c' >= c

\* Termination: the scanner is sequential code that steps until it returns,
\* so it terminates when some natural number falls with every step.  The
\* number is 5 for every character not yet passed plus the rank of the label.
LabelRank ==
  CASE pc = "parse_number" -> 4
    [] pc = "scan"         -> 3
    [] pc = "convert"      -> 2
    [] pc = "parse_dot"    -> 1
    [] pc = "parse_mask"   -> 1
    [] pc = "return"       -> 0

StepsLeft == 5 * (Len(input) - c) + LabelRank

C10_Terminates == StepsLeft' >= 0 /\ StepsLeft' < StepsLeft

\* C10: the scan terminates; the cursor never decreases and never passes the
\* size, number_count never passes 4, no byte at an index >= size is read,
\* and success is returned only with number_count = 4.
C10_ScanSafe ==
  /\ []C10_Bounds
  /\ [][C10_CursorMonotone /\ C10_Terminates]_vars

C10_Witness == Succeeded /\ c = Len(input) /\ c > MaxLen /\ number_count = OctetCount

(* ----------------------- claims about the cast ------------------------- *)

CastReturned == cast_pc = "return"

\* logical row k of the source: its null flag, its text, and what the
\* scanner makes of the text
RowNull(k) == ~vdata.validity[vdata.sel[k]]

RowText(k) == vdata.data[vdata.sel[k]]

RowParse(k) == TryParseIPAddress(RowText(k), <<>>)

RowFails(k) == ~RowNull(k) /\ ~RowParse(k).ret

\* k is the lowest index of a non-null row whose text fails to parse
FirstFailure(k) ==
  /\ k \in 0..(count - 1)
  /\ RowFails(k)
  /\ \A j \in 0..(k - 1) : ~RowFails(j)

\* C5: with k the lowest non-null row that fails to parse, the call returns
\* failure with the scanner's message for row k, the address and mask entries
\* of the non-null rows before k hold their parsed values, and no entry or
\* null flag of row k or of a later row is written.
C5_FirstFailure ==
  CastReturned =>
    \A k \in 0..(count - 1) : FirstFailure(k) =>
      /\ ~cast_ret
      /\ error_message = RowParse(k).error_message
      /\ error_message = Message(RowText(k), error_message[Len(error_message)])
      /\ \A j \in 0..(k - 1) : ~RowNull(j) =>
           /\ address_data[j] = RowParse(j).result.address
           /\ mask_data[j] = RowParse(j).result.mask
      /\ \A j \in Rows : j >= k =>
           /\ address_data[j] = Uninit
           /\ result_validity[j]
      /\ \A cell \in MaskCells : cell >= k => mask_data[cell] = Uninit

\* the null row's iteration: the flag of the row and nothing else
C6_NullStep ==
  (cast_pc = "loop" /\ RowIsNull) =>
    /\ result_validity' = [result_validity EXCEPT ![i] = FALSE]
    /\ address_data' = address_data
    /\ mask_data' = mask_data
    /\ parser_calls' = parser_calls
    /\ error_message' = error_message
    /\ cast_pc' = "loop" /\ i' = i + 1

C6_AllNull ==
  (CastReturned /\ \A k \in 0..(count - 1) : RowNull(k)) =>
    /\ cast_ret
    /\ parser_calls = 0
    /\ error_message = <<>>

\* C6: a null row that is reached is marked null without a scanner call,
\* without a write to its address or mask entry and without an error; a
\* batch of null rows makes no scanner call and returns success.
C6_NullRows ==
  /\ [][C6_NullStep]_vars
  /\ []C6_AllNull

C6_Witness ==
  /\ CastReturned /\ cast_ret /\ count >= 2 /\ parser_calls = 0
  /\ \A k \in 0..(count - 1) : RowNull(k) /\ ~result_validity[k]

\* C7: after a successful call the 16-bit mask entry of every non-null row
\* is the mask the scanner produced for the row, and the stores changed
\* nothing outside the count entries of the column.
C7_MaskColumn ==
  (CastReturned /\ cast_ret) =>
    /\ \A k \in 0..(count - 1) : ~RowNull(k) =>
         mask_data[k] = RowParse(k).result.mask
    /\ \A cell \in MaskCells : cell >= count => mask_data[cell] = Uninit

====
